---------------------------- MODULE Spec2Model ----------------------------
(***************************************************************************)
(* Model of device/fingerprint.go of nomad-generic-device-plugin: the      *)
(* doFingerprint goroutine (timer-driven, cancellable loop), the detection *)
(* step writeFingerprintToChannel (discovery, grouping by Model, caching,  *)
(* send on the output channel) and deviceGroupFromFingerprintData.         *)
(***************************************************************************)
EXTENDS Integers, Sequences, FiniteSets, TLC

(***************************************************************************)
(* Bounds of the model.                                                    *)
(***************************************************************************)
\* longest configured-device list explored
MaxDevices == 2
\* largest Count of a configured device explored
MaxCount == 2
\* ticks the loop consumes before the model stops the timer channel
MaxTicks == 3

(***************************************************************************)
(* Input domains.  Names containing the separator "/" are ordinary Go      *)
(* strings, so they are part of the domain of fmt.Sprintf.                 *)
(***************************************************************************)
\* <<Type, Vendor, Model>> of the configured devices explored: two that differ
\* in Vendor only, two that differ in Type and Vendor and format to the same
\* ID prefix, and one of another Model
DeviceNames ==
    {<<"t", "v", "m">>, <<"t", "v/v", "m">>, <<"t/v", "v", "m">>, <<"t", "v", "n">>}

\* GenericDevice as it appears in d.configuredDevices (Count is an int;
\* the configuration loader hands over non-negative counts)
ConfiguredDevice ==
    {[Type |-> n[1], Vendor |-> n[2], Model |-> n[3], Count |-> c] :
        n \in DeviceNames, c \in 0..MaxCount}

ConfiguredLists ==
    UNION {[1..n -> ConfiguredDevice] : n \in 0..MaxDevices}

VARIABLES
    configuredDevices,      \* d.configuredDevices
    identifiedDevices,      \* d.identifiedDevices: ID -> GenericDevice
    deviceLock,             \* d.deviceLock is held
    pc,                     \* position of the doFingerprint goroutine
    timer,                  \* ticker: "armed" or "fired" (a value waits in ticker.C)
    ticks,                  \* values taken from ticker.C so far
    cancelled,              \* ctx.Done() is closed
    observed,               \* the loop took the ctx.Done() branch
    closes,                 \* number of close(devices) executed
    sending,                \* the response the blocked send offers (<<>> or <<r>>)
    received,               \* responses the consumer received, in order
    discoveredDevices,      \* local discoveredDevices of the last discovery
    deviceListByDeviceName, \* local deviceListByDeviceName of the last discovery
    sendOnClosed,           \* a send was executed on the closed channel
    armedFor,               \* duration the ticker was last set to: "zero" or "period"
    fires                   \* expiries of the ticker so far

vars == <<configuredDevices, identifiedDevices, deviceLock, pc, timer, ticks,
          cancelled, observed, closes, sending, received,
          discoveredDevices, deviceListByDeviceName, sendOnClosed, armedFor, fires>>

(***************************************************************************)
(* Pure helpers.                                                           *)
(***************************************************************************)
EmptyMap == [k \in {} |-> k]

\* m[k] = v of a Go map
MapPut(m, k, v) == [x \in (DOMAIN m) \cup {k} |-> IF x = k THEN v ELSE m[x]]

Front(s) == SubSeq(s, 1, Len(s) - 1)

\* all orders in which a Go range may visit the keys of a map
KeyOrders(S) ==
    {o \in [1..Cardinality(S) -> S] : \A k \in S : \E i \in DOMAIN o : o[i] = k}

\* fmt.Sprintf("%s/%s/%s/%d", ...)
Sprintf(type, vendor, model, deviceIndex) ==
    type \o "/" \o vendor \o "/" \o model \o "/" \o ToString(deviceIndex)

\* mutant: a Count of 0 is not replaced by 1
EffectiveCountNoDefault(configuredDevice) == configuredDevice.Count

\* count := configuredDevice.Count; if count == 0 { count = 1 }
EffectiveCount(configuredDevice) ==
    IF configuredDevice.Count = 0 THEN 1 ELSE configuredDevice.Count

\* the inner for loop: one fingerprintedDevice per deviceIndex in [0, count)
ExpandDevice(configuredDevice) ==
    [i \in 1..EffectiveCount(configuredDevice) |->
        [ID |-> Sprintf(configuredDevice.Type, configuredDevice.Vendor,
                        configuredDevice.Model, i - 1),
         device |-> [Type |-> configuredDevice.Type,
                     Vendor |-> configuredDevice.Vendor,
                     Model |-> configuredDevice.Model]]]

\* the outer for loop over d.configuredDevices, appending in order
RECURSIVE DiscoverDevices(_)
DiscoverDevices(configured) ==
    IF Len(configured) = 0 THEN <<>>
    ELSE DiscoverDevices(Front(configured)) \o ExpandDevice(configured[Len(configured)])

\* mutant: the first device of a Model makes the bucket and is not appended
BucketInsertDropsFirst(byName, dev) ==
    LET deviceName == dev.device.Model IN
    IF deviceName \in DOMAIN byName
        THEN [byName EXCEPT ![deviceName] = Append(@, dev)]
        ELSE MapPut(byName, deviceName, <<>>)

\* mutant: the bucket is assigned the device instead of appended to
BucketInsertOverwrite(byName, dev) ==
    MapPut(byName, dev.device.Model, <<dev>>)

\* deviceListByDeviceName[deviceName] = append(deviceListByDeviceName[deviceName], device)
BucketInsert(byName, dev) ==
    LET deviceName == dev.device.Model IN
    IF deviceName \in DOMAIN byName
        THEN [byName EXCEPT ![deviceName] = Append(@, dev)]
        ELSE MapPut(byName, deviceName, <<dev>>)

\* the grouping loop over discoveredDevices, as far as the buckets go (the
\* buckets of the earlier iterations are bound, so they are computed once)
RECURSIVE GroupByDeviceName(_)
GroupByDeviceName(discovered) ==
    IF Len(discovered) = 0 THEN EmptyMap
    ELSE CHOOSE buckets \in
            {BucketInsert(byName, discovered[Len(discovered)]) :
                byName \in {GroupByDeviceName(Front(discovered))}} : TRUE

\* mutant: the cache is keyed by the device's Model instead of its ID
RECURSIVE CacheDevicesByModel(_, _)
CacheDevicesByModel(cache, discovered) ==
    IF Len(discovered) = 0 THEN cache
    ELSE LET dev == discovered[Len(discovered)] IN
         MapPut(CacheDevicesByModel(cache, Front(discovered)), dev.device.Model, dev.device)

\* the grouping loop over discoveredDevices, as far as the cache goes:
\* d.identifiedDevices[device.ID] = device.device (the cache of the earlier
\* iterations is bound, so it is computed once)
RECURSIVE CacheDevices(_, _)
CacheDevices(cache, discovered) ==
    IF Len(discovered) = 0 THEN cache
    ELSE LET dev == discovered[Len(discovered)] IN
         CHOOSE cached \in
            {MapPut(before, dev.ID, dev.device) :
                before \in {CacheDevices(cache, Front(discovered))}} : TRUE

\* the nil *device.DeviceGroup
NilGroup == [nil |-> TRUE]

\* mutant: Vendor and Type are read from the last device of the list
deviceGroupFromLastDevice(groupName, deviceList) ==
    IF Len(deviceList) = 0 THEN NilGroup
    ELSE [Vendor |-> deviceList[Len(deviceList)].device.Vendor,
          Type |-> deviceList[Len(deviceList)].device.Type,
          Name |-> groupName,
          Devices |-> [i \in 1..Len(deviceList) |->
                          [ID |-> deviceList[i].ID, Healthy |-> TRUE, HwLocality |-> "nil"]]]

\* deviceGroupFromFingerprintData: nil for no devices, else the group whose
\* Vendor and Type are those of deviceList[0]
deviceGroupFromFingerprintData(groupName, deviceList) ==
    IF Len(deviceList) = 0 THEN NilGroup
    ELSE [Vendor |-> deviceList[1].device.Vendor,
          Type |-> deviceList[1].device.Type,
          Name |-> groupName,
          Devices |-> [i \in 1..Len(deviceList) |->
                          [ID |-> deviceList[i].ID, Healthy |-> TRUE, HwLocality |-> "nil"]]]

\* deviceGroups, built by ranging over the map in the order `order`
BuildDeviceGroups(byName, order) ==
    [i \in 1..Len(order) |-> deviceGroupFromFingerprintData(order[i], byName[order[i]])]

\* device.NewFingerprint(deviceGroups...)
NewFingerprint(deviceGroups) == [Devices |-> deviceGroups]

(***************************************************************************)
(* Initial state: the plugin is configured, the goroutine is at its first  *)
(* select, time.NewTimer(0) is armed, nothing is cached.                   *)
(***************************************************************************)
Init ==
    /\ configuredDevices \in ConfiguredLists
    /\ identifiedDevices = EmptyMap
    /\ deviceLock = FALSE
    /\ pc = "select"
    /\ timer = "armed"
    /\ ticks = 0
    /\ cancelled = FALSE
    /\ observed = FALSE
    /\ closes = 0
    /\ sending = <<>>
    /\ received = <<>>
    /\ discoveredDevices = <<>>
    /\ deviceListByDeviceName = EmptyMap
    /\ sendOnClosed = FALSE
    /\ armedFor = "zero"
    /\ fires = 0

(***************************************************************************)
(* Environment.                                                            *)
(***************************************************************************)
\* the runtime timer expires and puts a value into ticker.C
TimerFire ==
    /\ timer = "armed"
    /\ timer' = "fired"
    /\ fires' = fires + 1
    /\ UNCHANGED <<configuredDevices, identifiedDevices, deviceLock, pc, ticks,
                   cancelled, observed, closes, sending, received,
                   discoveredDevices, deviceListByDeviceName, sendOnClosed,
                   armedFor>>

\* the host cancels ctx
Cancel ==
    /\ ~cancelled
    /\ cancelled' = TRUE
    /\ UNCHANGED <<configuredDevices, identifiedDevices, deviceLock, pc, timer, ticks,
                   observed, closes, sending, received,
                   discoveredDevices, deviceListByDeviceName, sendOnClosed,
                   armedFor, fires>>

\* the consumer receives the response of the blocked send (rendezvous)
Recv ==
    /\ pc = "send"
    /\ received' = received \o sending
    /\ sending' = <<>>
    /\ pc' = "sent"
    /\ UNCHANGED <<configuredDevices, identifiedDevices, deviceLock, timer, ticks,
                   cancelled, observed, closes,
                   discoveredDevices, deviceListByDeviceName, sendOnClosed,
                   armedFor, fires>>

(***************************************************************************)
(* doFingerprint.                                                          *)
(***************************************************************************)
\* mutant: the tick is taken and the ticker is not reset
SelectTickNoReset ==
    /\ pc = "select"
    /\ timer = "fired"
    /\ ticks < MaxTicks
    /\ timer' = "idle"
    /\ armedFor' = armedFor
    /\ ticks' = ticks + 1
    /\ pc' = "write"
    /\ UNCHANGED <<configuredDevices, identifiedDevices, deviceLock,
                   cancelled, observed, closes, sending, received,
                   discoveredDevices, deviceListByDeviceName, sendOnClosed,
                   fires>>

\* select takes <-ticker.C, then ticker.Reset(d.fingerprintPeriod)
SelectTick ==
    /\ pc = "select"
    /\ timer = "fired"
    /\ ticks < MaxTicks
    /\ timer' = "armed"
    /\ armedFor' = "period"
    /\ ticks' = ticks + 1
    /\ pc' = "write"
    /\ UNCHANGED <<configuredDevices, identifiedDevices, deviceLock,
                   cancelled, observed, closes, sending, received,
                   discoveredDevices, deviceListByDeviceName, sendOnClosed,
                   fires>>

\* mutant: the ctx.Done() case leaves the select only (break), not the function
SelectDoneBreak ==
    /\ pc = "select"
    /\ cancelled
    /\ observed' = TRUE
    /\ pc' = "write"
    /\ UNCHANGED <<configuredDevices, identifiedDevices, deviceLock, timer, ticks,
                   cancelled, closes, sending, received,
                   discoveredDevices, deviceListByDeviceName, sendOnClosed,
                   armedFor, fires>>

\* select takes <-ctx.Done(): return
SelectDone ==
    /\ pc = "select"
    /\ cancelled
    /\ observed' = TRUE
    /\ pc' = "return"
    /\ UNCHANGED <<configuredDevices, identifiedDevices, deviceLock, timer, ticks,
                   cancelled, closes, sending, received,
                   discoveredDevices, deviceListByDeviceName, sendOnClosed,
                   armedFor, fires>>

\* mutant: close(devices) is not deferred to the return, the loop goes on
CloseInLoop ==
    /\ pc = "return"
    /\ closes' = closes + 1
    /\ pc' = "select"
    /\ UNCHANGED <<configuredDevices, identifiedDevices, deviceLock, timer, ticks,
                   cancelled, observed, sending, received,
                   discoveredDevices, deviceListByDeviceName, sendOnClosed,
                   armedFor, fires>>

\* defer close(devices)
Close ==
    /\ pc = "return"
    /\ closes' = closes + 1
    /\ pc' = "closed"
    /\ UNCHANGED <<configuredDevices, identifiedDevices, deviceLock, timer, ticks,
                   cancelled, observed, sending, received,
                   discoveredDevices, deviceListByDeviceName, sendOnClosed,
                   armedFor, fires>>

(***************************************************************************)
(* writeFingerprintToChannel.                                              *)
(***************************************************************************)
\* mutant: the call looks at ctx before it locks and gives the step up
LockUnlessCancelled ==
    /\ pc = "write"
    /\ ~deviceLock
    /\ IF cancelled
          THEN /\ pc' = "return"
               /\ observed' = TRUE
               /\ deviceLock' = deviceLock
          ELSE /\ pc' = "locked"
               /\ observed' = observed
               /\ deviceLock' = TRUE
    /\ UNCHANGED <<configuredDevices, identifiedDevices, timer, ticks,
                   cancelled, closes, sending, received,
                   discoveredDevices, deviceListByDeviceName, sendOnClosed,
                   armedFor, fires>>

\* d.deviceLock.Lock()
Lock ==
    /\ pc = "write"
    /\ ~deviceLock
    /\ deviceLock' = TRUE
    /\ pc' = "locked"
    /\ UNCHANGED <<configuredDevices, identifiedDevices, timer, ticks,
                   cancelled, observed, closes, sending, received,
                   discoveredDevices, deviceListByDeviceName, sendOnClosed,
                   armedFor, fires>>

\* mutant: the send does not wait for its receiver (a select with a default
\* case): the call goes on with the response undelivered
DiscoverAndSendNonBlocking ==
    /\ \E discovered \in {DiscoverDevices(configuredDevices)} :
       \E byName \in {GroupByDeviceName(discovered)} :
          /\ discoveredDevices' = discovered
          /\ deviceListByDeviceName' = byName
          /\ identifiedDevices' = CacheDevices(identifiedDevices, discovered)
          /\ \E order \in KeyOrders(DOMAIN byName) :
                sending' = <<NewFingerprint(BuildDeviceGroups(byName, order))>>
    /\ sendOnClosed' = (sendOnClosed \/ closes > 0)
    /\ pc' = "sent"
    /\ UNCHANGED <<configuredDevices, deviceLock, timer, ticks,
                   cancelled, observed, closes, received, armedFor, fires>>

\* the body of the if: discover, group, cache, and start the send
DiscoverAndSend ==
    /\ \E discovered \in {DiscoverDevices(configuredDevices)} :
       \E byName \in {GroupByDeviceName(discovered)} :
          /\ discoveredDevices' = discovered
          /\ deviceListByDeviceName' = byName
          /\ identifiedDevices' = CacheDevices(identifiedDevices, discovered)
          /\ \E order \in KeyOrders(DOMAIN byName) :
                sending' = <<NewFingerprint(BuildDeviceGroups(byName, order))>>
    /\ sendOnClosed' = (sendOnClosed \/ closes > 0)
    /\ pc' = "send"
    /\ UNCHANGED <<configuredDevices, deviceLock, timer, ticks,
                   cancelled, observed, closes, received, armedFor, fires>>

\* mutant: the cache is not consulted, the body runs on a non-empty cache too
CacheHitRediscover ==
    /\ pc = "locked"
    /\ DOMAIN identifiedDevices # {}
    /\ DiscoverAndSend

\* mutant: the cache-hit path returns without unlocking (no defer)
CacheHitNoUnlock ==
    /\ pc = "locked"
    /\ DOMAIN identifiedDevices # {}
    /\ pc' = "select"
    /\ UNCHANGED <<configuredDevices, identifiedDevices, deviceLock, timer, ticks,
                   cancelled, observed, closes, sending, received,
                   discoveredDevices, deviceListByDeviceName, sendOnClosed,
                   armedFor, fires>>

\* len(d.identifiedDevices) != 0: nothing to do, the deferred Unlock runs
CacheHit ==
    /\ pc = "locked"
    /\ DOMAIN identifiedDevices # {}
    /\ deviceLock' = FALSE
    /\ pc' = "select"
    /\ UNCHANGED <<configuredDevices, identifiedDevices, timer, ticks,
                   cancelled, observed, closes, sending, received,
                   discoveredDevices, deviceListByDeviceName, sendOnClosed,
                   armedFor, fires>>

\* len(d.identifiedDevices) == 0: the body runs and blocks in the send
Discover ==
    /\ pc = "locked"
    /\ DOMAIN identifiedDevices = {}
    /\ DiscoverAndSend

\* the send has completed: the deferred Unlock runs and the call returns
Unlock ==
    /\ pc = "sent"
    /\ deviceLock' = FALSE
    /\ pc' = "select"
    /\ UNCHANGED <<configuredDevices, identifiedDevices, timer, ticks,
                   cancelled, observed, closes, sending, received,
                   discoveredDevices, deviceListByDeviceName, sendOnClosed,
                   armedFor, fires>>

Next ==
    \/ TimerFire
    \/ Cancel
    \/ Recv
    \/ SelectTick
    \/ SelectDone
    \/ Close
    \/ Lock
    \/ CacheHit
    \/ Discover
    \/ Unlock

Spec == Init /\ [][Next]_vars

(***************************************************************************)
(* Fair scheduling of the goroutine and of the runtime timer.              *)
(* The goroutine, while it can take a step, eventually takes one; select   *)
(* chooses among its ready cases at random, so the ctx.Done() case, ready  *)
(* again and again, is eventually chosen (strong fairness).  Nothing is    *)
(* assumed of the host (Cancel) nor of the consumer of the channel (Recv). *)
(***************************************************************************)
\* a step of the goroutine other than the ctx.Done() case of its select
LoopStep == SelectTick \/ Lock \/ CacheHit \/ Discover \/ Unlock \/ Close

LoopFairness ==
    /\ WF_vars(TimerFire)
    /\ WF_vars(LoopStep)
    /\ SF_vars(SelectDone)

FairSpec == Spec /\ LoopFairness

\* the same, with a consumer that receives every response offered to it
LiveSpec == Spec /\ LoopFairness /\ WF_vars(Recv)

(***************************************************************************)
(* Shared vocabulary of the properties.                                    *)
(***************************************************************************)
\* responses the loop has handed to a send so far: delivered, or in flight
Emitted == received \o sending

\* this step starts a send on the channel, or completes one
SendHappens ==
    \/ pc # "send" /\ pc' = "send"
    \/ Len(received') > Len(received)

(***************************************************************************)
(* C1.  Whenever cancellation is signalled, the output channel is          *)
(* eventually closed, under fair scheduling of the loop and whatever the   *)
(* consumer does.  (Refuted under FairSpec: a send nobody receives blocks  *)
(* the goroutine for ever, and close(devices) never runs.)                 *)
(***************************************************************************)
C1_CancelLeadsToClose == cancelled ~> (closes > 0)

(***************************************************************************)
(* C2, as claimed.  Once cancellation has been signalled, no step sends a  *)
(* response on the channel.                                                *)
(***************************************************************************)
C2_NoSendAfterCancel == [][cancelled => ~SendHappens]_vars

(***************************************************************************)
(* C2, amended.  Once the loop has taken the ctx.Done() branch of its      *)
(* select, no step sends a response on the channel.                        *)
(***************************************************************************)
C2_NoSendAfterObserved == [][observed => ~SendHappens]_vars

\* the loop has returned on cancellation although a tick was waiting and the
\* cache was still empty: another pass of the loop would have sent
C2_Witness ==
    /\ observed
    /\ pc = "closed"
    /\ timer = "fired"
    /\ ticks < MaxTicks
    /\ DOMAIN identifiedDevices = {}
    /\ Len(received) > 0

(***************************************************************************)
(* C3.  A step of writeFingerprintToChannel taken with a non-empty cache   *)
(* starts no send and leaves the cache as it is; and once the cache is     *)
(* non-empty, at most one response has ever been handed to the channel.    *)
(***************************************************************************)
C3_CacheHitIdempotent ==
    [][/\ DOMAIN identifiedDevices # {} =>
            /\ identifiedDevices' = identifiedDevices
            /\ ~(pc # "send" /\ pc' = "send")
            /\ Len(Emitted') <= Len(Emitted)
       /\ DOMAIN identifiedDevices' # {} => Len(Emitted') <= 1]_vars

\* a second invocation has run to its end on a non-empty cache
C3_Witness ==
    /\ ticks >= 2
    /\ pc = "select"
    /\ DOMAIN identifiedDevices # {}
    /\ Len(received) = 1

(***************************************************************************)
(* C4.  With an empty configured list the loop hands exactly one (empty)   *)
(* response to the channel over its whole life.  (Refuted: the cache stays *)
(* empty, so every tick discovers and sends again.)                        *)
(***************************************************************************)
C4_EmptyListSendsOnce ==
    Len(configuredDevices) = 0 => Len(Emitted) <= 1

(***************************************************************************)
(* C10.  The channel is closed only after the loop has observed the        *)
(* cancellation, it is closed at most once, and nothing is sent on it once *)
(* it is closed.                                                           *)
(***************************************************************************)
C10_CloseDiscipline ==
    /\ closes <= 1
    /\ closes > 0 => cancelled /\ observed
    /\ closes > 0 => pc = "closed" /\ Len(sending) = 0
    /\ ~sendOnClosed

\* the channel has been closed after a response went through it
C10_Witness ==
    /\ closes = 1
    /\ Len(received) > 0

(***************************************************************************)
(* Vocabulary of the grouping properties, stated from the configuration.   *)
(***************************************************************************)
Max(a, b) == IF a >= b THEN a ELSE b

\* the sum over the entries of max(Count, 1)
RECURSIVE SumMaxCount(_)
SumMaxCount(configured) ==
    IF Len(configured) = 0 THEN 0
    ELSE SumMaxCount(Front(configured)) + Max(configured[Len(configured)].Count, 1)

\* the sum of max(Count, 1) over the entries of Model `model`
RECURSIVE SumMaxCountOf(_, _)
SumMaxCountOf(configured, model) ==
    IF Len(configured) = 0 THEN 0
    ELSE SumMaxCountOf(Front(configured), model)
         + (IF configured[Len(configured)].Model = model
                THEN Max(configured[Len(configured)].Count, 1) ELSE 0)

\* the device IDs of one group, in order
GroupIDs(group) ==
    IF group = NilGroup THEN <<>>
    ELSE [i \in 1..Len(group.Devices) |-> group.Devices[i].ID]

\* the device IDs of a response, group after group
RECURSIVE ResponseIDs(_)
ResponseIDs(groups) ==
    IF Len(groups) = 0 THEN <<>>
    ELSE ResponseIDs(Front(groups)) \o GroupIDs(groups[Len(groups)])

\* the IDs of the generated devices of Model `model`, in generation order
DiscoveredIDsOf(model) ==
    LET OfModel(d) == d.device.Model = model
        ds == SelectSeq(discoveredDevices, OfModel)
    IN [i \in 1..Len(ds) |-> ds[i].ID]

\* a discovery pass has run (its response is in flight or delivered)
DiscoveryRan == Len(Emitted) > 0

(***************************************************************************)
(* C5.  A discovery pass generates, for each configured entry in order,    *)
(* exactly max(Count, 1) devices carrying that entry's names, and every    *)
(* response holds the sum over the entries of max(Count, 1) device         *)
(* summaries.                                                              *)
(***************************************************************************)
C5_DeviceCount ==
    DiscoveryRan =>
        /\ Len(discoveredDevices) = SumMaxCount(configuredDevices)
        /\ \A k \in 1..Len(configuredDevices) :
              \A i \in 1..Max(configuredDevices[k].Count, 1) :
                 LET d == discoveredDevices[SumMaxCount(SubSeq(configuredDevices, 1, k - 1)) + i]
                 IN /\ d.device.Type = configuredDevices[k].Type
                    /\ d.device.Vendor = configuredDevices[k].Vendor
                    /\ d.device.Model = configuredDevices[k].Model
        /\ \A n \in 1..Len(Emitted) :
              Len(ResponseIDs(Emitted[n].Devices)) = SumMaxCount(configuredDevices)

\* a response was delivered for a list holding a Count of 0 and a Count above 1
C5_Witness ==
    /\ Len(received) > 0
    /\ \E k \in 1..Len(configuredDevices) : configuredDevices[k].Count = 0
    /\ \E k \in 1..Len(configuredDevices) : configuredDevices[k].Count > 1

(***************************************************************************)
(* C6.  Within a discovery pass every generated ID is Type/Vendor/Model/   *)
(* index of a configured entry with index below its effective Count, no    *)
(* two generated devices share an ID, no ID occurs twice in a response,    *)
(* and the cache holds one entry per generated device.  (Refuted: two      *)
(* entries of the same Type, Vendor and Model generate the same IDs.)      *)
(***************************************************************************)
C6_UniqueIDs ==
    DiscoveryRan =>
        /\ \A i \in 1..Len(discoveredDevices) :
              \E k \in 1..Len(configuredDevices) :
                 \E index \in 0..(Max(configuredDevices[k].Count, 1) - 1) :
                    discoveredDevices[i].ID =
                        Sprintf(configuredDevices[k].Type, configuredDevices[k].Vendor,
                                configuredDevices[k].Model, index)
        /\ \A i, j \in 1..Len(discoveredDevices) :
              i # j => discoveredDevices[i].ID # discoveredDevices[j].ID
        /\ \A n \in 1..Len(Emitted) :
              LET ids == ResponseIDs(Emitted[n].Devices)
              IN \A i, j \in 1..Len(ids) : i # j => ids[i] # ids[j]
        /\ Cardinality(DOMAIN identifiedDevices) = Len(discoveredDevices)

(***************************************************************************)
(* C7.  Every group of every response is a group (not nil) with at least   *)
(* one device.                                                             *)
(***************************************************************************)
C7_GroupsNonEmpty ==
    \A n \in 1..Len(Emitted) :
       \A g \in 1..Len(Emitted[n].Devices) :
          /\ Emitted[n].Devices[g] # NilGroup
          /\ Len(Emitted[n].Devices[g].Devices) >= 1

\* a delivered response holds two groups, one of them of a single device
C7_Witness ==
    /\ Len(received) > 0
    /\ Len(received[1].Devices) = 2
    /\ \E g \in 1..2 : Len(GroupIDs(received[1].Devices[g])) = 1

(***************************************************************************)
(* C8.  The groups of a response partition the generated devices by Model: *)
(* there is one group per Model of the configured list, no two groups have *)
(* the same Name, and the members of a group are exactly the generated     *)
(* devices whose Model is the group's Name.                                *)
(***************************************************************************)
C8_PartitionByModel ==
    \A n \in 1..Len(Emitted) :
       LET groups == Emitted[n].Devices IN
       /\ Len(groups) =
             Cardinality({configuredDevices[k].Model : k \in 1..Len(configuredDevices)})
       /\ \A g, h \in 1..Len(groups) :
             g # h => groups[g] # NilGroup /\ groups[h] # NilGroup
                      /\ groups[g].Name # groups[h].Name
       /\ \A g \in 1..Len(groups) :
             /\ groups[g] # NilGroup
             /\ GroupIDs(groups[g]) = DiscoveredIDsOf(groups[g].Name)
       /\ \A i \in 1..Len(discoveredDevices) :
             \E g \in 1..Len(groups) :
                groups[g] # NilGroup /\ groups[g].Name = discoveredDevices[i].device.Model

\* a delivered response holds two groups, one of them of several devices
C8_Witness ==
    /\ Len(received) > 0
    /\ Len(received[1].Devices) = 2
    /\ \E g \in 1..2 : Len(GroupIDs(received[1].Devices[g])) > 1

(***************************************************************************)
(* C9.  A group's Vendor and Type are those of the earliest configured     *)
(* entry of the group's Model, its first device is the first device        *)
(* generated from that entry, and the group holds the devices of every     *)
(* entry of that Model.                                                    *)
(***************************************************************************)
C9_FirstWins ==
    \A n \in 1..Len(Emitted) :
       \A g \in 1..Len(Emitted[n].Devices) :
          LET group == Emitted[n].Devices[g] IN
          /\ group # NilGroup
          /\ \E k \in 1..Len(configuredDevices) :
                /\ configuredDevices[k].Model = group.Name
                /\ \A j \in 1..(k - 1) : configuredDevices[j].Model # group.Name
                /\ group.Vendor = configuredDevices[k].Vendor
                /\ group.Type = configuredDevices[k].Type
                /\ group.Devices[1].ID =
                      Sprintf(configuredDevices[k].Type, configuredDevices[k].Vendor,
                              configuredDevices[k].Model, 0)
          /\ Len(group.Devices) = SumMaxCountOf(configuredDevices, group.Name)

\* a delivered group took its header from the first of two entries that
\* share the Model and differ in Vendor and in Type
C9_Witness ==
    /\ Len(received) > 0
    /\ Len(configuredDevices) = 2
    /\ configuredDevices[1].Model = configuredDevices[2].Model
    /\ configuredDevices[1].Vendor # configuredDevices[2].Vendor
    /\ configuredDevices[1].Type # configuredDevices[2].Type
    /\ Len(received[1].Devices) = 1
    /\ received[1].Devices[1].Vendor = configuredDevices[1].Vendor

(***************************************************************************)
(* C11.  Backpressure without loss: a response handed to the send stays    *)
(* offered, unchanged, with the loop blocked in that send and taking no    *)
(* tick, until the consumer receives it; what the consumer has received    *)
(* only grows, by the offered response appended at its end.                *)
(***************************************************************************)
C11_BackpressureNoLoss ==
    [][/\ Len(sending) <= 1
       /\ Len(sending) > 0 => pc = "send"
       /\ received' # received =>
             Len(sending) = 1 /\ received' = received \o sending /\ Len(sending') = 0
       /\ Len(sending) > 0 =>
             /\ ticks' = ticks
             /\ \/ sending' = sending /\ received' = received /\ pc' = "send"
                \/ received' = received \o sending /\ Len(sending') = 0]_vars

\* two responses were delivered and a third is offered while a tick waits
C11_Witness ==
    /\ Len(received) >= 2
    /\ pc = "send"
    /\ Len(sending) = 1
    /\ timer = "fired"

(***************************************************************************)
(* C12.  Whenever the loop is blocked it waits on its timer or on the      *)
(* cancellation, and the lock is free.  (Refuted: the send runs before the *)
(* deferred Unlock, so the loop waits for the consumer holding the lock.)  *)
(***************************************************************************)
\* the goroutine cannot go on by itself
LoopBlocked ==
    \/ pc = "select" /\ timer # "fired" /\ ~cancelled
    \/ pc = "send"
    \/ pc = "write" /\ deviceLock

C12_NoSuspendHoldingLock ==
    LoopBlocked => pc = "select" /\ ~deviceLock

(***************************************************************************)
(* C15.  The cache changes only in a step of the loop that holds the lock, *)
(* a key once cached is never removed and its value never replaced by a    *)
(* different device (also within the caching loop of one pass), the        *)
(* configured list never changes, and a non-empty cache stays as it is.    *)
(* (Refuted: two entries that format to the same ID make the caching loop  *)
(* replace the first entry's device by the second's.)                      *)
(***************************************************************************)
\* the cache after the first i assignments of the last pass's caching loop
CacheAfter(i) == CacheDevices(EmptyMap, SubSeq(discoveredDevices, 1, i))

C15_CacheOnlyGrows ==
    /\ [][/\ identifiedDevices' # identifiedDevices => pc = "locked" /\ deviceLock /\ deviceLock'
          /\ \A id \in DOMAIN identifiedDevices :
                id \in DOMAIN identifiedDevices' /\ identifiedDevices'[id] = identifiedDevices[id]
          /\ configuredDevices' = configuredDevices
          /\ DOMAIN identifiedDevices # {} => identifiedDevices' = identifiedDevices]_vars
    /\ [](\A i \in 1..Len(discoveredDevices) :
            \A id \in DOMAIN CacheAfter(i - 1) :
               CacheAfter(i)[id] = CacheAfter(i - 1)[id])

(***************************************************************************)
(* C17.  Once a detection step has handed a response to the send, the set  *)
(* of device IDs of that response is the key set of the cache, and every   *)
(* cached device carries the Type, Vendor and Model of a configured entry  *)
(* that generates its ID.                                                  *)
(***************************************************************************)
C17_SnapshotMatchesCache ==
    \A n \in 1..Len(Emitted) :
       LET ids == ResponseIDs(Emitted[n].Devices) IN
       /\ {ids[i] : i \in 1..Len(ids)} = DOMAIN identifiedDevices
       /\ \A id \in DOMAIN identifiedDevices :
             \E k \in 1..Len(configuredDevices) :
                /\ \E index \in 0..(Max(configuredDevices[k].Count, 1) - 1) :
                      id = Sprintf(configuredDevices[k].Type, configuredDevices[k].Vendor,
                                   configuredDevices[k].Model, index)
                /\ identifiedDevices[id] = [Type |-> configuredDevices[k].Type,
                                            Vendor |-> configuredDevices[k].Vendor,
                                            Model |-> configuredDevices[k].Model]

\* a step has delivered a response of several devices in two groups and returned
C17_Witness ==
    /\ Len(received) > 0
    /\ pc = "select"
    /\ Len(received[1].Devices) = 2
    /\ Cardinality(DOMAIN identifiedDevices) > 2

(***************************************************************************)
(* Vocabulary of the step properties.                                      *)
(***************************************************************************)
\* a call of writeFingerprintToChannel is in progress
InStep == pc \in {"write", "locked", "send", "sent"}

\* this step of the loop takes a tick and so starts a detection step
StepStarts == pc = "select" /\ pc' = "write"

C14_TickDiscipline ==
    /\ [](/\ timer \in {"armed", "fired"}
          /\ fires = ticks + (IF timer = "fired" THEN 1 ELSE 0)
          /\ ticks = 0 => armedFor = "zero"
          /\ InStep => ticks > 0)
    /\ [][/\ StepStarts =>
               /\ timer = "fired"
               /\ timer' = "armed"
               /\ armedFor' = "period"
               /\ ticks' = ticks + 1
               /\ fires' = fires
          /\ ticks' # ticks => StepStarts
          /\ (~InStep /\ InStep') => StepStarts]_vars
    /\ <>(cancelled \/ Len(received) > 0)

\* uncancelled, the first response delivered, a later tick of the period waits
C14_Witness ==
    /\ ~cancelled
    /\ Len(received) > 0
    /\ ticks >= 2
    /\ armedFor = "period"
    /\ timer = "fired"
    /\ pc = "select"

(***************************************************************************)
(* C16.  The consumer receiving, the lock once taken is eventually         *)
(* released, on the cache-hit and on the cache-miss path; and whenever the *)
(* loop is neither at its select nor finished, a step of the loop, or the  *)
(* receive that completes its send, is possible.                           *)
(***************************************************************************)
C16_NoDeadlock ==
    /\ deviceLock ~> ~deviceLock
    /\ [](pc \notin {"select", "closed"} => ENABLED (LoopStep \/ Recv))

\* the lock, released after the cache miss, is taken again for a cache hit
C16_Witness ==
    /\ ticks >= 2
    /\ pc = "locked"
    /\ deviceLock
    /\ DOMAIN identifiedDevices # {}

=============================================================================
